---- MODULE Spec2Model ----
(***************************************************************************)
(* Model of the Overview component (src/src/Overview.jsx): the React state *)
(* cells of the component, the draw closure that renders the SVG marks and *)
(* registers their handlers, the debounced scheduling of draw, the d3 zoom *)
(* handler and the filter pipeline (filteredNodes, artistNodes,            *)
(* visibleLabels); of the pure computations of its layout (influence band, *)
(* ribbon of the selected contributor, placement jitter); and of the       *)
(* Chatbot component (src/src/Chatbot.jsx).                                *)
(***************************************************************************)
EXTENDS Integers, Sequences, FiniteSets, TLC

(***************************************************************************)
(* Bounds of the model.                                                    *)
(***************************************************************************)
\* number of setTimeout handles the browser hands out in one run
MaxTimers == 4
\* granularity of the passage of time, in milliseconds
TickMs == 50
\* largest total influence of a contributor
MaxInfluence == 1000
\* largest number of works a contributor has contributed to
MaxWorks == 3
\* largest number of events in the influence time series of a contributor
MaxEvents == 2
\* number of recomputations of a placement on the same inputs
MaxRecomputations == 2
\* largest number of messages in the chat window
MaxMessages == 4

(***************************************************************************)
(* Program constants.                                                      *)
(***************************************************************************)
\* debounce(draw, 100)
Delay == 100
\* Math.max(600, ...) in updateHeight
MinHeight == 600
\* if (!width || width < 100) return;
MinWidth == 100

\* null of JavaScript; ids of the dataset are non-negative integers
Null == -1

\* JavaScript truthiness of an id-or-null value: null and 0 are falsy
Truthy(v) == v # Null /\ v # 0

\* String(id): the string form of an id, distinct from the id itself
Str(id) == <<"str", id>>

(***************************************************************************)
(* The genre vocabulary and the role vocabulary, cut down to two entries   *)
(* each.                                                                   *)
(***************************************************************************)
FLAT_GENRES == {"Oceanus Folk", "Indie Pop"}
ARTIST_ROLES == {"Composer", "Performer"}

(***************************************************************************)
(* The dataset (data.nodes), loaded once and never changed.  Node ids are  *)
(* those of the node-link graph: consecutive integers from 0.              *)
(***************************************************************************)
nodes == {0, 1, 2}
people == {3}
groups == {4}
recordLabels == {5, 6}
nodeById == nodes \cup people \cup groups \cup recordLabels

genre == (0 :> "Oceanus Folk") @@ (1 :> "Indie Pop") @@ (2 :> "Oceanus Folk")
influencedBy == (0 :> {1}) @@ (1 :> {}) @@ (2 :> {0})
influenced == (0 :> {2}) @@ (1 :> {0}) @@ (2 :> {})
contributedTo == (3 :> {0, 1}) @@ (4 :> {1, 2})
roles == (3 :> {"Performer"}) @@ (4 :> {"Composer"})
\* the role fields of the works: the contributors each role lists
performedBy == (0 :> {3}) @@ (1 :> {3}) @@ (2 :> {})
composedBy == (0 :> {}) @@ (1 :> {3, 4}) @@ (2 :> {4})
producedBy == (0 :> {}) @@ (1 :> {}) @@ (2 :> {})
lyricsBy == (0 :> {}) @@ (1 :> {}) @@ (2 :> {})
recordedArtwork == (5 :> {0}) @@ (6 :> {1})
distributedArtwork == (5 :> {2}) @@ (6 :> {})
name == (3 :> <<"S", "a", "i", "l", "o", "r">>) @@ (4 :> <<"I", "v", "y">>)
release_date == (0 :> 2000) @@ (1 :> 2005) @@ (2 :> 2010)
totalInfluence == (3 :> 12) @@ (4 :> 0)
\* node.influence: the influence events [year, score] of a contributor
nodeInfluence == (3 :> <<[year |-> 2003, score |-> 5]>>) @@ (4 :> <<>>)

\* the client widths the layout can give the svg element
Widths == {80, 600}
\* the transforms a zoom/pan gesture can produce; "identity" is d3.zoomIdentity
Transforms == {"identity", "zoomed", "panned"}
\* the texts typed into the artist search box
Queries == {<<"s">>, <<"i">>}

(***************************************************************************)
(* String helpers of the artist search.                                    *)
(***************************************************************************)
toLowerCase(s) ==
    [i \in 1..Len(s) |->
        CASE s[i] = "S" -> "s"
          [] s[i] = "I" -> "i"
          [] OTHER -> s[i]]

includes(s, q) ==
    \E i \in 1..(Len(s) + 1) :
        /\ i + Len(q) - 1 <= Len(s)
        /\ SubSeq(s, i, i + Len(q) - 1) = q

VARIABLES
    view,             \* the state cells that the draw closure captures
    ui,               \* the other state cells: lightbox and artist search
    width,            \* ref.current.clientWidth
    zoomTransformRef, \* zoomTransformRef.current
    mounted,          \* the component is mounted (ref.current is set)
    debouncedDraw,    \* the current debounced closure: its fn and its timer
    timers,           \* the browser's pending setTimeout callbacks
    nextTimerId,      \* the handle the next setTimeout returns
    svg,              \* the output of the last draw and the closure it ran with
    resizeObserver,   \* the effect's ResizeObserver: a notification is due
    fired,            \* handles of the timers whose callback has run
    chat,             \* the state cells of the Chatbot component and its fetch
    calc              \* one evaluation of a pure computation: input and output

vars == <<view, ui, width, zoomTransformRef, mounted, debouncedDraw, timers,
          nextTimerId, svg, resizeObserver, fired, chat, calc>>

(***************************************************************************)
(* FilterEngine: filteredNodes, artistNodes, visibleLabels.                *)
(***************************************************************************)
\* a source set that takes every work as a source of a selected genre
influenceGenreNodeIds_all(influenceGenres) == nodes

\* the works whose genre is in the influence-genre selection
influenceGenreNodeIds(influenceGenres) ==
    {n \in nodes : genre[n] \in influenceGenres}

\* a filter that lacks the bypass of the genre predicate for an empty selection
filteredNodes_emptyHidesAll(selectedGenres, influenceGenres, selectedArtistId, selectedLabelId) ==
    LET byGenre == {n \in nodes : genre[n] \in selectedGenres}
        byInfluence ==
            IF influenceGenres # {}
            THEN {n \in byGenre :
                     influencedBy[n] \cap influenceGenreNodeIds(influenceGenres) # {}}
            ELSE byGenre
    IN  IF Truthy(selectedLabelId) /\ selectedLabelId \in recordLabels
        THEN {n \in byInfluence :
                 n \in recordedArtwork[selectedLabelId]
                         \cup distributedArtwork[selectedLabelId]}
        ELSE IF Truthy(selectedArtistId) /\ selectedArtistId \in people \cup groups
        THEN {n \in byInfluence : n \in contributedTo[selectedArtistId]}
        ELSE byInfluence

filteredNodes(selectedGenres, influenceGenres, selectedArtistId, selectedLabelId) ==
    LET byGenre == {n \in nodes :
                       selectedGenres = {} \/ genre[n] \in selectedGenres}
        byInfluence ==
            IF influenceGenres # {}
            THEN {n \in byGenre :
                     influencedBy[n] \cap influenceGenreNodeIds(influenceGenres) # {}}
            ELSE byGenre
    IN  IF Truthy(selectedLabelId)
        THEN IF selectedLabelId \in recordLabels
             THEN {n \in byInfluence :
                      n \in recordedArtwork[selectedLabelId]
                              \cup distributedArtwork[selectedLabelId]}
             ELSE byInfluence
        ELSE IF Truthy(selectedArtistId)
        THEN IF selectedArtistId \in people \cup groups
             THEN {n \in byInfluence : n \in contributedTo[selectedArtistId]}
             ELSE byInfluence
        ELSE byInfluence

\* a filter in which the contributor selection takes precedence over the label
visibleSongAlbumIds_artistFirst(c) ==
    IF Truthy(c.selectedArtistId)
    THEN filteredNodes(c.selectedGenres, c.influenceGenres, c.selectedArtistId, Null)
    ELSE filteredNodes(c.selectedGenres, c.influenceGenres,
                       c.selectedArtistId, c.selectedLabelId)

\* filteredNodes as a draw closure sees it
visibleSongAlbumIds(c) ==
    filteredNodes(c.selectedGenres, c.influenceGenres,
                  c.selectedArtistId, c.selectedLabelId)

\* a contributor filter that ignores the role selection
artistNodes_anyRole(c) ==
    {a \in people \cup groups : contributedTo[a] \cap visibleSongAlbumIds(c) # {}}

artistNodes(c) ==
    {a \in people \cup groups :
        /\ contributedTo[a] \cap visibleSongAlbumIds(c) # {}
        /\ roles[a] \cap c.selectedRoles # {}}

visibleLabels(c) ==
    {l \in recordLabels :
        (recordedArtwork[l] \cup distributedArtwork[l])
            \cap visibleSongAlbumIds(c) # {}}

artistSearchResults(c, artistSearch) ==
    IF artistSearch = <<>> THEN {}
    ELSE {a \in artistNodes(c) :
             includes(toLowerCase(name[a]), toLowerCase(artistSearch))}

\* the works drawn below the timeline for the selected contributor
influenceArtworks(c) ==
    IF Truthy(c.selectedArtistId) /\ c.selectedArtistId \in people \cup groups
    THEN LET own == contributedTo[c.selectedArtistId]
         IN  (UNION {influenced[w] \cup influencedBy[w] : w \in own}) \ own
    ELSE {}

(***************************************************************************)
(* The hover highlight set of a draw: null, or a set of id strings.        *)
(***************************************************************************)
highlightSet(c) ==
    IF Truthy(c.hoveredArtworkId) /\ c.hoveredArtworkId \in nodeById
    THEN [isNull |-> FALSE,
          ids |-> {Str(c.hoveredArtworkId)}
                    \cup {Str(id) : id \in influenced[c.hoveredArtworkId]}
                    \cup {Str(id) : id \in influencedBy[c.hoveredArtworkId]}]
    ELSE [isNull |-> TRUE, ids |-> {}]

\* the work dots that a draw renders at opacity 0.1 because of the hover
dimmedDots(c) ==
    LET h == highlightSet(c)
    IN  IF h.isNull THEN {}
        ELSE {d \in visibleSongAlbumIds(c) : Str(d) \notin h.ids}

(***************************************************************************)
(* The per-year pie glyphs of a draw: the years that get a glyph.          *)
(***************************************************************************)
\* glyphs drawn whenever the influence filter is active
pieGlyphs_whenActive(c) ==
    IF Cardinality(c.influenceGenres) > 0
    THEN {release_date[n] : n \in visibleSongAlbumIds(c)}
    ELSE {}

\* if (influenceGenres.size === genres.length): a glyph for every year that
\* has a visible work
pieGlyphs(c) ==
    IF Cardinality(c.influenceGenres) = Cardinality(FLAT_GENRES)
    THEN {release_date[n] : n \in visibleSongAlbumIds(c)}
    ELSE {}

(***************************************************************************)
(* Initial state: the component has mounted, updateHeight has set the      *)
(* height from the width, and the scheduling effect has called             *)
(* debouncedDraw once.                                                     *)
(***************************************************************************)
updateHeight(w) ==
    LET rounded == (w * 133 + 50) \div 100
    IN  IF rounded > MinHeight THEN rounded ELSE MinHeight

\* the width the svg element has when the component mounts
InitWidth == CHOOSE w \in Widths : \A x \in Widths : x <= w

InitView ==
    [selectedArtistId |-> Null,
     selectedLabelId |-> Null,
     selectedArtworkId |-> Null,
     hoveredArtworkId |-> Null,
     selectedGenres |-> FLAT_GENRES,
     influenceGenres |-> {},
     selectedRoles |-> ARTIST_ROLES,
     svgHeight |-> updateHeight(InitWidth)]

EmptySvg ==
    [rendered |-> FALSE, by |-> InitView, transform |-> "identity",
     highlight |-> [isNull |-> TRUE, ids |-> {}], dimmed |-> {}, pies |-> {},
     fill |-> <<>>, tails |-> <<>>]

\* the Chatbot component after its first render: closed, no messages
ChatInit ==
    [isOpen |-> FALSE, messages |-> <<>>, inputMessage |-> <<>>,
     isLoading |-> FALSE, fetch |-> <<>>]

\* no pure computation is being evaluated
NoCalc == [fn |-> "none", done |-> TRUE]

OverviewInit ==
    /\ view = InitView
    /\ ui = [isLightboxOpen |-> FALSE, artistSearch |-> <<>>,
             showArtistDropdown |-> FALSE]
    /\ width = InitWidth
    /\ zoomTransformRef = "identity"
    /\ mounted = TRUE
    /\ debouncedDraw = [fn |-> InitView, timer |-> 1]
    /\ timers = {[id |-> 1, fn |-> InitView, left |-> Delay]}
    /\ nextTimerId = 2
    /\ svg = EmptySvg
    /\ resizeObserver = TRUE
    /\ fired = {}

Init ==
    /\ OverviewInit
    /\ chat = ChatInit
    /\ calc = NoCalc

(***************************************************************************)
(* debounce: the debounced closure and its cancel.                         *)
(***************************************************************************)
\* clearTimeout(handle) on the browser's timer table
clearTimeout(table, handle) == {t \in table : t.id # handle}

\* a debounced closure that sets a new timer without clearing the previous one
debounced_noClear(d, table, handle) ==
    [d |-> [d EXCEPT !.timer = handle],
     table |-> table \cup {[id |-> handle, fn |-> d.fn, left |-> Delay]}]

\* debounced(): if (timer) clearTimeout(timer); timer = setTimeout(fn, delay)
debounced(d, table, handle) ==
    [d |-> [d EXCEPT !.timer = handle],
     table |-> (IF d.timer # 0 THEN clearTimeout(table, d.timer) ELSE table)
                 \cup {[id |-> handle, fn |-> d.fn, left |-> Delay]}]

\* a cancel that leaves the pending timer in place
cancel_noop(d, table) == table

\* debounced.cancel(): if (timer) clearTimeout(timer)
cancel(d, table) ==
    IF d.timer # 0 THEN clearTimeout(table, d.timer) ELSE table

(***************************************************************************)
(* draw: the closure c is the state captured when draw was created.        *)
(***************************************************************************)
\* a draw that starts from the identity transform on every recomputation
zoomTransform_identity(ref) == "identity"

\* let zoomTransform = zoomTransformRef.current || d3.zoomIdentity
zoomTransform(ref) == ref

(***************************************************************************)
(* JavaScript numbers without rounding: a number is a fraction <<n, d>> in *)
(* lowest terms with d > 0, and NaN, the result of 0 / 0, is <<0, 0>>.     *)
(***************************************************************************)
RECURSIVE gcd(_, _)
gcd(a, b) == IF b = 0 THEN a ELSE gcd(b, a % b)

abs(x) == IF x < 0 THEN -x ELSE x

NaN == <<0, 0>>

isNaN(a) == a[2] = 0

Num(n, d) ==
    IF d = 0 THEN NaN
    ELSE LET g == gcd(abs(n), abs(d))
         IN  IF d < 0 THEN <<(-n) \div g, (-d) \div g>> ELSE <<n \div g, d \div g>>

Plus(a, b) ==
    IF isNaN(a) \/ isNaN(b) THEN NaN ELSE Num(a[1] * b[2] + b[1] * a[2], a[2] * b[2])

Minus(a, b) ==
    IF isNaN(a) \/ isNaN(b) THEN NaN ELSE Num(a[1] * b[2] - b[1] * a[2], a[2] * b[2])

Times(a, b) ==
    IF isNaN(a) \/ isNaN(b) THEN NaN ELSE Num(a[1] * b[1], a[2] * b[2])

Over(a, b) ==
    IF isNaN(a) \/ isNaN(b) THEN NaN ELSE Num(a[1] * b[2], a[2] * b[1])

\* a <= b, false when either side is NaN
LessEq(a, b) == ~isNaN(a) /\ ~isNaN(b) /\ a[1] * b[2] <= b[1] * a[2]

(***************************************************************************)
(* The ribbon (variable-width arc tail) of the selected contributor: the   *)
(* cumulative influence over the years of its works and of its influence   *)
(* events, and the radius of the tail at each of those years.  An event is *)
(* [year, score]; the year Null stands for "Unknown".                      *)
(***************************************************************************)
\* the release years of works and the years of influence events
Years == {2000, 2005, 2010}
InfluenceYears == {2000, 2003, 2005}
Scores == {0, 5}
\* the start radius and the end radius of a tail
TailEnds == {<<300, 300>>, <<300, 360>>}

RECURSIVE sortNumbers(_)
\* Array.from(set).sort((a, b) => Number(a) - Number(b))
sortNumbers(set) ==
    IF set = {} THEN <<>>
    ELSE LET least == CHOOSE y \in set : \A z \in set : y <= z
         IN  <<least>> \o sortNumbers(set \ {least})

RECURSIVE sumScores(_)
\* reduce((sum, inf) => sum + (inf.score || 0), 0)
sumScores(events) ==
    IF events = <<>> THEN Num(0, 1)
    ELSE Plus(sumScores(SubSeq(events, 1, Len(events) - 1)),
              events[Len(events)].score)

\* the sum of the scores of the events whose year is "Unknown"
unknownInfluence(influenceArray) ==
    sumScores(SelectSeq([k \in 1..Len(influenceArray) |->
                            [year |-> influenceArray[k].year,
                             score |-> Num(influenceArray[k].score, 1)]],
                        LAMBDA inf : inf.year = Null))

\* a clean array that leaves the events of an unknown year out
cleanInfluenceArray_dropsUnknown(yearsContributed, influenceArray) ==
    SelectSeq([k \in 1..Len(influenceArray) |->
                  [year |-> influenceArray[k].year,
                   score |-> Num(influenceArray[k].score, 1)]],
              LAMBDA inf : inf.year # Null)

\* the events of a known year, then an equal share of the unknown influence
\* for every contributed work
cleanInfluenceArray(yearsContributed, influenceArray) ==
    LET known == SelectSeq([k \in 1..Len(influenceArray) |->
                               [year |-> influenceArray[k].year,
                                score |-> Num(influenceArray[k].score, 1)]],
                           LAMBDA inf : inf.year # Null)
        unknown == unknownInfluence(influenceArray)
        avgInfluencePerYear == Over(unknown, Num(Len(yearsContributed), 1))
    IN  IF unknown[1] > 0 /\ Len(yearsContributed) > 0
        THEN known \o [k \in 1..Len(yearsContributed) |->
                          [year |-> yearsContributed[k],
                           score |-> avgInfluencePerYear]]
        ELSE known

\* the sorted union of the years of the works and of the events
yearsList(yearsContributed, clean) ==
    sortNumbers({yearsContributed[k] : k \in 1..Len(yearsContributed)}
                  \cup {clean[k].year : k \in 1..Len(clean)})

\* the score of a year: the sum of the scores of its events
yearScore(clean, year) ==
    sumScores(SelectSeq(clean, LAMBDA inf : inf.year = year))

\* a map that holds the score of each known year instead of the running sum
cumulativeByKnownYear_perYear(years, clean) ==
    [i \in {j \in 1..Len(years) : \E k \in 1..Len(clean) : clean[k].year = years[j]}
        |-> yearScore(clean, years[i])]

\* the running sum at each year that has an event, by index in the year list
cumulativeByKnownYear(years, clean) ==
    LET has(i) == \E k \in 1..Len(clean) : clean[k].year = years[i]
        runningSum[i \in 0..Len(years)] ==
            IF i = 0 THEN Num(0, 1)
            ELSE IF has(i) THEN Plus(runningSum[i - 1], yearScore(clean, years[i]))
            ELSE runningSum[i - 1]
    IN  [i \in {j \in 1..Len(years) : has(j)} |-> runningSum[i]]

RECURSIVE fillInfluence(_, _, _, _)
\* the loop over the year list; index 0 stands for the index -1 of the code
fillInfluence(cum, n, i, st) ==
    IF i > n THEN st.out
    ELSE IF i \in DOMAIN cum
    THEN fillInfluence(cum, n, i + 1,
                       [st EXCEPT !.out = Append(@, cum[i]),
                                  !.lastKnownIdx = i,
                                  !.lastKnownValue = cum[i]])
    ELSE LET later == {j \in (i + 1)..n : j \in DOMAIN cum}
             first == CHOOSE j \in later : \A k \in later : j <= k
             s1 == IF st.nextKnownIdx <= i
                   THEN IF later # {}
                        THEN [st EXCEPT !.nextKnownIdx = first,
                                        !.nextKnownValue = cum[first]]
                        ELSE [st EXCEPT !.nextKnownIdx = 0]
                   ELSE st
             t == Over(Num(i - s1.lastKnownIdx, 1),
                       Num(s1.nextKnownIdx - s1.lastKnownIdx, 1))
             v == IF s1.lastKnownIdx = 0 /\ s1.nextKnownIdx # 0
                  THEN s1.nextKnownValue
                  ELSE IF s1.lastKnownIdx # 0 /\ s1.nextKnownIdx = 0
                  THEN s1.lastKnownValue
                  ELSE IF s1.lastKnownIdx # 0 /\ s1.nextKnownIdx # 0
                  THEN Plus(s1.lastKnownValue,
                            Times(t, Minus(s1.nextKnownValue, s1.lastKnownValue)))
                  ELSE Num(0, 1)
         IN  fillInfluence(cum, n, i + 1, [s1 EXCEPT !.out = Append(@, v)])

\* a sequence that is 0 at the years before the first year with an event
influenceByYear_zeroBeforeFirst(years, cum) ==
    LET filled == fillInfluence(cum, Len(years), 1,
                                [lastKnownIdx |-> 0, lastKnownValue |-> Num(0, 1),
                                 nextKnownIdx |-> 0, nextKnownValue |-> Num(0, 1),
                                 out |-> <<>>])
    IN  [i \in 1..Len(years) |->
            IF \E j \in 1..i : j \in DOMAIN cum THEN filled[i] ELSE Num(0, 1)]

\* the cumulative influence at each year of the year list
influenceByYear(years, cum) ==
    fillInfluence(cum, Len(years), 1,
                  [lastKnownIdx |-> 0, lastKnownValue |-> Num(0, 1),
                   nextKnownIdx |-> 0, nextKnownValue |-> Num(0, 1),
                   out |-> <<>>])

\* the radius of the tail at each year of the year list
tailRadii(years, influence, tailMin, tailMax) ==
    LET n == Len(years)
        minTailInf == CHOOSE v \in {influence[i] : i \in 1..n} :
                          \A i \in 1..n : LessEq(v, influence[i])
        maxTailInf == CHOOSE v \in {influence[i] : i \in 1..n} :
                          \A i \in 1..n : LessEq(influence[i], v)
        span == Minus(Num(tailMax, 1), Num(tailMin, 1))
    IN  IF maxTailInf # minTailInf
        THEN [i \in 1..n |->
                 Plus(Num(tailMin, 1),
                      Times(Over(Minus(influence[i], minTailInf),
                                 Minus(maxTailInf, minTailInf)),
                            span))]
        ELSE [i \in 1..n |->
                 Plus(Num(tailMin, 1), Times(Over(Num(i - 1, 1), Num(n - 1, 1)), span))]

\* the width of the tail at its tip: const minW = 0.8
minW == Num(4, 5)

\* a point of the outline, kept as the angle and the radius its coordinates
\* centerX + Math.cos(a) * r and centerY + Math.sin(a) * r are computed from
tailPoints(years, radii, startAngle, endAngle, maxW) ==
    LET n == Len(years)
        t(i) == Over(Num(i - 1, 1), Num(n - 1, 1))
        a(i) == Plus(startAngle, Times(t(i), Minus(endAngle, startAngle)))
        w(i) == Plus(minW, Times(Minus(maxW, minW), Times(t(i), t(i))))
    IN  [pointsOuter |->
             [i \in 1..n |-> [a |-> a(i),
                              r |-> Plus(radii[i], Over(w(i), Num(2, 1)))]],
         pointsInner |->
             [i \in 1..n |-> [a |-> a(i),
                              r |-> Minus(radii[i], Over(w(i), Num(2, 1)))]]]

\* isNaN(point[0]) || isNaN(point[1]): a coordinate is NaN exactly when the
\* angle or the radius it is computed from is NaN
isNaNPoint(point) == isNaN(point.a) \/ isNaN(point.r)

\* a path that is appended whatever its points are, with every command
tailPath_unguarded(points) ==
    LET pointsOuter == points.pointsOuter
        pointsInner == points.pointsInner
        n == Len(pointsOuter)
    IN  [appended |-> TRUE,
         d |-> <<[cmd |-> "M", points |-> <<pointsOuter[1]>>]>>
                   \o [i \in 1..(n - 1) |->
                          [cmd |-> "Q",
                           points |-> <<pointsOuter[i], pointsOuter[i + 1]>>]]
                   \o [k \in 1..n |->
                          [cmd |-> "L", points |-> <<pointsInner[n - k + 1]>>]]]

\* the path of a tail: appended is FALSE when the guard on the first outer
\* point skips the path; d lists the commands of the path, each with the
\* points its coordinates are computed from
tailPath(points) ==
    LET pointsOuter == points.pointsOuter
        pointsInner == points.pointsInner
        n == Len(pointsOuter)
        outer == [i \in 1..(n - 1) |->
                     [cmd |-> "Q", points |-> <<pointsOuter[i], pointsOuter[i + 1]>>]]
        last == IF n > 1
                THEN <<[cmd |-> "L", points |-> <<pointsOuter[n]>>]>>
                ELSE <<>>
        inner == [k \in 1..n |->
                     LET i == n - k + 1
                     IN  IF i = n
                         THEN [cmd |-> "L", points |-> <<pointsInner[i]>>]
                         ELSE [cmd |-> "Q",
                               points |-> <<pointsInner[i], pointsInner[i + 1]>>]]
        finite(command) ==
            \A j \in 1..Len(command.points) : ~isNaNPoint(command.points[j])
    IN  IF n > 0 /\ ~isNaNPoint(pointsOuter[1])
        THEN [appended |-> TRUE,
              d |-> <<[cmd |-> "M", points |-> <<pointsOuter[1]>>]>>
                        \o SelectSeq(outer \o last \o inner, finite)]
        ELSE [appended |-> FALSE, d |-> <<>>]

\* the tail of a contributor whose works have the given sorted years
tail(yearsContributed, influenceArray, tailMin, tailMax, startAngle, endAngle, maxW) ==
    LET clean == cleanInfluenceArray(yearsContributed, influenceArray)
        years == yearsList(yearsContributed, clean)
        influence == influenceByYear(years, cumulativeByKnownYear(years, clean))
        radii == tailRadii(years, influence, tailMin, tailMax)
    IN  [yearsList |-> years,
         influenceByYear |-> influence,
         tailRadii |-> radii,
         path |-> tailPath(tailPoints(years, radii, startAngle, endAngle, maxW))]

RECURSIVE sortedYears(_)
\* node.contributedTo.map(id => Number(art.release_date)).sort((a, b) => a - b)
sortedYears(works) ==
    IF works = {} THEN <<>>
    ELSE LET first == CHOOSE w \in works :
                          \A v \in works : release_date[w] <= release_date[v]
         IN  <<release_date[first]>> \o sortedYears(works \ {first})

\* the layout of a frame: the radii, the angles and the mark radius a tail is
\* drawn with are finite numbers given by the scales
frameLayout ==
    [tailMin |-> 300, tailMax |-> 360,
     startAngle |-> Num(0, 1), endAngle |-> Num(1, 1), maxW |-> Num(9, 1)]

\* whether the path of the tail of a contributor is appended to the frame
tailAppended(node) ==
    LET yearsContributed == sortedYears(contributedTo[node])
    IN  /\ Len(yearsContributed) > 1
        /\ tail(yearsContributed, nodeInfluence[node],
                frameLayout.tailMin, frameLayout.tailMax,
                frameLayout.startAngle, frameLayout.endAngle,
                frameLayout.maxW).path.appended

\* tails that are yellow for every contributor
tails_allYellow(c) ==
    LET drawn == {node \in artistNodes(c) :
                     /\ Truthy(c.selectedArtistId)
                     /\ Cardinality(contributedTo[node]) > 1
                     /\ tailAppended(node)}
    IN  [node \in drawn |-> "#ff0"]

\* the tails of a frame: the fill of the path of each contributor that gets
\* one, yellow for the selected contributor and grey for the other visible
\* contributors while some contributor is selected
tails(c) ==
    LET selected == {node \in artistNodes(c) :
                        /\ c.selectedArtistId = node
                        /\ Cardinality(contributedTo[node]) > 1
                        /\ tailAppended(node)}
        others == {node \in artistNodes(c) :
                      /\ Truthy(c.selectedArtistId)
                      /\ Cardinality(contributedTo[node]) > 1
                      /\ c.selectedArtistId # node
                      /\ tailAppended(node)}
    IN  [node \in selected \cup others |->
            IF node \in selected THEN "#ff0" ELSE "#888"]

\* the role fields of a work, in the order the draw lists them
roleKeys == <<"performedBy", "composedBy", "producedBy", "lyricsBy">>

\* artworkNode[key]: the contributors the role field of a work lists
roleField(key, artwork) ==
    CASE key = "performedBy" -> performedBy[artwork]
      [] key = "composedBy" -> composedBy[artwork]
      [] key = "producedBy" -> producedBy[artwork]
      [] key = "lyricsBy" -> lyricsBy[artwork]

ROLE_COLOR_MAP ==
    [composedBy |-> "#DF41FF", lyricsBy |-> "#FF5053",
     performedBy |-> "#FFB547", producedBy |-> "#50DAF1"]

\* let fillColor = '#fffde7'
neutralColor == "#fffde7"

\* the fill colour of the mark of a contributor; contributorIds is still empty
\* when the marks are drawn, so the circle of a person is filled with it too
fillColor(c, node) ==
    IF Truthy(c.selectedArtworkId)
    THEN IF c.selectedArtworkId \in nodes            \* if (artworkNode)
         THEN LET listed == {i \in 1..Len(roleKeys) :
                                node \in roleField(roleKeys[i], c.selectedArtworkId)}
              IN  IF Cardinality(listed) = 1
                  THEN ROLE_COLOR_MAP[roleKeys[CHOOSE i \in listed : TRUE]]
                  ELSE neutralColor
         ELSE neutralColor
    ELSE IF Truthy(c.selectedArtistId) /\ contributedTo[node] # {}
    THEN LET selectedArtworks ==
                 IF c.selectedArtistId \in artistNodes(c)
                 THEN contributedTo[c.selectedArtistId]
                 ELSE {}
             connectedLinkTypes ==
                 {ROLE_COLOR_MAP[roleKeys[i]] :
                      i \in {k \in 1..Len(roleKeys) :
                                 \E artworkId \in selectedArtworks :
                                     node \in roleField(roleKeys[k], artworkId)}}
             isConnected == connectedLinkTypes # {}
         IN  IF /\ c.selectedArtistId = node \/ isConnected
                /\ Cardinality(connectedLinkTypes) = 1
             THEN CHOOSE color \in connectedLinkTypes : TRUE
             ELSE neutralColor
    ELSE neutralColor

draw(c) ==
    IF ~mounted THEN svg                  \* if (!ref.current) return
    ELSE IF width < MinWidth              \* children removed, then return
    THEN [EmptySvg EXCEPT !.by = c]
    ELSE [rendered |-> TRUE,
          by |-> c,
          transform |-> zoomTransform(zoomTransformRef),
          highlight |-> highlightSet(c),
          dimmed |-> dimmedDots(c),
          pies |-> pieGlyphs(c),
          fill |-> [node \in artistNodes(c) |-> fillColor(c, node)],
          tails |-> tails(c)]

(***************************************************************************)
(* The scheduling effect.  It runs again whenever debouncedDraw changes,   *)
(* that is whenever a captured state cell changed: the cleanup of the      *)
(* previous run cancels its debounced closure, then a new closure is       *)
(* created, called once, and the stored transform is applied to the zoom   *)
(* group.                                                                  *)
(***************************************************************************)
\* an effect that creates the debounced closure but never calls it
schedulingEffect_noCall(d, table, handle, c) ==
    [d |-> [fn |-> c, timer |-> 0], table |-> cancel(d, table)]

schedulingEffect(d, table, handle, c) ==
    debounced([fn |-> c, timer |-> 0], cancel(d, table), handle)

\* commit of a new value v2 of the captured state cells
Render(v2) ==
    /\ view' = v2
    /\ IF v2 = view
       THEN UNCHANGED <<debouncedDraw, timers, nextTimerId, svg, resizeObserver>>
       ELSE /\ nextTimerId <= MaxTimers
            /\ LET r == schedulingEffect(debouncedDraw, timers, nextTimerId, v2)
               IN  /\ debouncedDraw' = r.d
                   /\ timers' = r.table
            /\ nextTimerId' = nextTimerId + 1
            /\ svg' = IF svg.rendered
                      THEN [svg EXCEPT !.transform = zoomTransformRef]
                      ELSE svg
            /\ resizeObserver' = TRUE

\* the pointer reaches the page: the lightbox overlay is not covering it
Interactive == mounted /\ ~ui.isLightboxOpen

(***************************************************************************)
(* Time and timers.                                                        *)
(***************************************************************************)
Tick ==
    /\ \E t \in timers : t.left > 0
    /\ timers' = {[t EXCEPT !.left = IF t.left > TickMs THEN t.left - TickMs ELSE 0]
                     : t \in timers}
    /\ UNCHANGED <<view, ui, width, zoomTransformRef, mounted, debouncedDraw,
                   nextTimerId, svg, resizeObserver, fired, chat, calc>>

\* a due timer runs its callback, the draw closure it was created with
TimerFire ==
    \E t \in timers :
        /\ t.left = 0
        /\ timers' = timers \ {t}
        /\ fired' = fired \cup {t.id}
        /\ svg' = draw(t.fn)
        /\ UNCHANGED <<view, ui, width, zoomTransformRef, mounted,
                       debouncedDraw, nextTimerId, resizeObserver, chat, calc>>

(***************************************************************************)
(* Handlers registered by draw on the marks of the svg.  Each one uses the *)
(* values c captured by the draw that registered it and sets state cells   *)
(* of the current state v.                                                 *)
(***************************************************************************)
\* background rect
backgroundClick(c, v) ==
    [v EXCEPT !.selectedArtistId = Null,
              !.selectedLabelId = Null,
              !.selectedArtworkId = Null]

\* a label click that forgets setSelectedArtistId(null)
labelClick_keepsArtist(c, v, label) ==
    [v EXCEPT !.selectedLabelId = IF c.selectedLabelId = label THEN Null ELSE label,
              !.selectedArtworkId = Null]

\* label ellipse
labelClick(c, v, label) ==
    [v EXCEPT !.selectedLabelId = IF c.selectedLabelId = label THEN Null ELSE label,
              !.selectedArtistId = Null,
              !.selectedArtworkId = Null]

\* an artwork click that clears the other selections as a label click does
artworkClick_clearsOthers(c, v, id) ==
    [v EXCEPT !.selectedArtworkId = IF id = c.selectedArtworkId THEN Null ELSE id,
              !.selectedArtistId = Null,
              !.selectedLabelId = Null]

\* work dot above the timeline, influenced/influencing dot below it
artworkClick(c, v, id) ==
    [v EXCEPT !.selectedArtworkId = IF id = c.selectedArtworkId THEN Null ELSE id]

\* person circle, group rect
artistClick(c, v, node) ==
    [v EXCEPT !.selectedArtistId = IF c.selectedArtistId = node THEN Null ELSE node]

\* a test that every contributor passes
isSailor_any(a) == TRUE

\* node.name.toLowerCase().includes('sailor')
isSailor(a) == includes(toLowerCase(name[a]), <<"s", "a", "i", "l", "o", "r">>)

ClickBackground ==
    /\ Interactive /\ svg.rendered
    /\ Render(backgroundClick(svg.by, view))
    /\ UNCHANGED <<ui, width, zoomTransformRef, mounted, fired, chat, calc>>

ClickLabel ==
    \E label \in visibleLabels(svg.by) :
        /\ Interactive /\ svg.rendered
        /\ Render(labelClick(svg.by, view, label))
        /\ UNCHANGED <<ui, width, zoomTransformRef, mounted, fired, chat, calc>>

ClickWorkDot ==
    \E dot \in visibleSongAlbumIds(svg.by) :
        /\ Interactive /\ svg.rendered
        /\ Render(artworkClick(svg.by, view, dot))
        /\ UNCHANGED <<ui, width, zoomTransformRef, mounted, fired, chat, calc>>

ClickInfluenceDot ==
    \E artwork \in influenceArtworks(svg.by) :
        /\ Interactive /\ svg.rendered
        /\ Render(artworkClick(svg.by, view, artwork))
        /\ UNCHANGED <<ui, width, zoomTransformRef, mounted, fired, chat, calc>>

ClickArtist ==
    \E node \in artistNodes(svg.by) :
        /\ Interactive /\ svg.rendered
        /\ visibleSongAlbumIds(svg.by) # {}
        /\ Render(artistClick(svg.by, view, node))
        /\ ui' = IF isSailor(node) THEN [ui EXCEPT !.isLightboxOpen = TRUE] ELSE ui
        /\ UNCHANGED <<width, zoomTransformRef, mounted, fired, chat, calc>>

\* mousemove over a work dot or an influenced/influencing dot
HoverArtwork ==
    \E dot \in visibleSongAlbumIds(svg.by) \cup influenceArtworks(svg.by) :
        /\ Interactive /\ svg.rendered
        /\ Render([view EXCEPT !.hoveredArtworkId = dot])
        /\ UNCHANGED <<ui, width, zoomTransformRef, mounted, fired, chat, calc>>

\* mouseleave of a dot
LeaveArtwork ==
    /\ Interactive /\ svg.rendered
    /\ visibleSongAlbumIds(svg.by) \cup influenceArtworks(svg.by) # {}
    /\ Render([view EXCEPT !.hoveredArtworkId = Null])
    /\ UNCHANGED <<ui, width, zoomTransformRef, mounted, fired, chat, calc>>

(***************************************************************************)
(* Handlers of the React controls: lightbox and artist search box.         *)
(***************************************************************************)
CloseLightbox ==
    /\ mounted /\ ui.isLightboxOpen
    /\ ui' = [ui EXCEPT !.isLightboxOpen = FALSE]
    /\ UNCHANGED <<view, width, zoomTransformRef, mounted, debouncedDraw,
                   timers, nextTimerId, svg, resizeObserver, fired, chat, calc>>

\* onChange of the search input
SearchChange ==
    \E q \in Queries \cup {<<>>} :
        /\ Interactive
        /\ q # ui.artistSearch
        /\ ui' = [ui EXCEPT !.artistSearch = q, !.showArtistDropdown = TRUE]
        /\ UNCHANGED <<view, width, zoomTransformRef, mounted, debouncedDraw,
                       timers, nextTimerId, svg, resizeObserver, fired, chat, calc>>

\* onMouseDown of a search result
searchSelect(v, a) == [v EXCEPT !.selectedArtistId = a]

SearchSelect ==
    \E a \in artistSearchResults(view, ui.artistSearch) :
        /\ Interactive /\ ui.showArtistDropdown
        /\ Render(searchSelect(view, a))
        /\ ui' = [isLightboxOpen |-> isSailor(a),
                  artistSearch |-> <<>>,
                  showArtistDropdown |-> FALSE]
        /\ UNCHANGED <<width, zoomTransformRef, mounted, fired, chat, calc>>

(***************************************************************************)
(* Handlers of the filter checkboxes.                                      *)
(***************************************************************************)
toggle(set, x) == IF x \in set THEN set \ {x} ELSE set \cup {x}

selectAll(set, all) == IF set = all THEN {} ELSE all

handleGenreChange ==
    \E g \in FLAT_GENRES :
        /\ Interactive
        /\ Render([view EXCEPT !.selectedGenres = toggle(@, g)])
        /\ UNCHANGED <<ui, width, zoomTransformRef, mounted, fired, chat, calc>>

handleSelectAll ==
    /\ Interactive
    /\ Render([view EXCEPT !.selectedGenres = selectAll(@, FLAT_GENRES)])
    /\ UNCHANGED <<ui, width, zoomTransformRef, mounted, fired, chat, calc>>

handleInfluenceGenreChange ==
    \E g \in FLAT_GENRES :
        /\ Interactive
        /\ Render([view EXCEPT !.influenceGenres = toggle(@, g)])
        /\ UNCHANGED <<ui, width, zoomTransformRef, mounted, fired, chat, calc>>

handleInfluenceSelectAll ==
    /\ Interactive
    /\ Render([view EXCEPT !.influenceGenres = selectAll(@, FLAT_GENRES)])
    /\ UNCHANGED <<ui, width, zoomTransformRef, mounted, fired, chat, calc>>

handleRoleChange ==
    \E role \in ARTIST_ROLES :
        /\ Interactive
        /\ Render([view EXCEPT !.selectedRoles = toggle(@, role)])
        /\ UNCHANGED <<ui, width, zoomTransformRef, mounted, fired, chat, calc>>

handleRoleSelectAll ==
    /\ Interactive
    /\ Render([view EXCEPT !.selectedRoles = selectAll(@, ARTIST_ROLES)])
    /\ UNCHANGED <<ui, width, zoomTransformRef, mounted, fired, chat, calc>>

(***************************************************************************)
(* Resize, zoom/pan and teardown.                                          *)
(***************************************************************************)
\* the layout gives the svg element another width; its observer is notified
LayoutChange ==
    \E w \in Widths :
        /\ mounted
        /\ w # width
        /\ width' = w
        /\ resizeObserver' = TRUE
        /\ UNCHANGED <<view, ui, zoomTransformRef, mounted, debouncedDraw,
                       timers, nextTimerId, svg, fired, chat, calc>>

\* window 'resize' listener
WindowResize ==
    /\ mounted
    /\ Render([view EXCEPT !.svgHeight = updateHeight(width)])
    /\ UNCHANGED <<ui, width, zoomTransformRef, mounted, fired, chat, calc>>

\* an observer callback that schedules nothing
resizeObserverCallback_noop(d, table, handle) == [d |-> d, table |-> table]

\* new window.ResizeObserver(() => { debouncedDraw(); })
resizeObserverCallback(d, table, handle) == debounced(d, table, handle)

ResizeObserverNotify ==
    /\ mounted
    /\ resizeObserver
    /\ nextTimerId <= MaxTimers
    /\ LET r == resizeObserverCallback(debouncedDraw, timers, nextTimerId)
       IN  /\ debouncedDraw' = r.d
           /\ timers' = r.table
    /\ nextTimerId' = nextTimerId + 1
    /\ resizeObserver' = FALSE
    /\ UNCHANGED <<view, ui, width, zoomTransformRef, mounted, svg, fired, chat, calc>>

\* zoom.on('zoom', ...): store the transform, apply it to the zoom group
zoomed(output, transform) ==
    [ref |-> transform,
     svg |-> IF output.rendered THEN [output EXCEPT !.transform = transform]
             ELSE output]

ZoomEvent ==
    \E transform \in Transforms :
        /\ Interactive
        /\ transform # zoomTransformRef
        /\ zoomTransformRef' = zoomed(svg, transform).ref
        /\ svg' = zoomed(svg, transform).svg
        /\ UNCHANGED <<view, ui, width, mounted, debouncedDraw, timers,
                       nextTimerId, resizeObserver, fired, chat, calc>>

\* the component is torn down: the effect's cleanup runs, the svg goes away
Unmount ==
    /\ mounted
    /\ mounted' = FALSE
    /\ timers' = cancel(debouncedDraw, timers)
    /\ resizeObserver' = FALSE
    /\ svg' = EmptySvg
    /\ UNCHANGED <<view, ui, width, zoomTransformRef, debouncedDraw,
                   nextTimerId, fired, chat, calc>>

(***************************************************************************)
(* The interaction state machine: clicks, hovers, search, timers.          *)
(***************************************************************************)
Next ==
    \/ ClickBackground
    \/ ClickLabel
    \/ ClickWorkDot
    \/ ClickInfluenceDot
    \/ ClickArtist
    \/ HoverArtwork
    \/ LeaveArtwork
    \/ CloseLightbox
    \/ SearchChange
    \/ SearchSelect
    \/ ResizeObserverNotify
    \/ Tick
    \/ TimerFire

Spec == Init /\ [][Next]_vars

(***************************************************************************)
(* The scheduler: filter toggles, resize, zoom/pan, teardown, timers.      *)
(***************************************************************************)
SchedNext ==
    \/ handleGenreChange
    \/ handleSelectAll
    \/ handleInfluenceGenreChange
    \/ handleInfluenceSelectAll
    \/ handleRoleChange
    \/ handleRoleSelectAll
    \/ LayoutChange
    \/ WindowResize
    \/ ResizeObserverNotify
    \/ ZoomEvent
    \/ Unmount
    \/ Tick
    \/ TimerFire

SchedSpec == Init /\ [][SchedNext]_vars

(***************************************************************************)
(* Properties of the selection state machine.                              *)
(***************************************************************************)
\* C1: every label click leaves the contributor selection empty, whatever
\* contributor was selected, and every background click leaves the
\* contributor, label and artwork selections empty.
C1_LabelClearsArtistBackgroundClearsAll ==
    [][/\ ClickLabel => view'.selectedArtistId = Null
       /\ ClickBackground =>
            /\ view'.selectedArtistId = Null
            /\ view'.selectedLabelId = Null
            /\ view'.selectedArtworkId = Null]_vars

\* a label has been selected while the output on screen still shows a
\* selected contributor, and the contributor selection is empty
C1_Witness ==
    /\ svg.rendered
    /\ svg.by.selectedArtistId # Null
    /\ svg.by.selectedLabelId = Null
    /\ view.selectedLabelId # Null
    /\ view.selectedArtistId = Null

\* C2: at most one of the selected contributor and the selected label is
\* non-empty in every reachable state.
C2_ArtistXorLabel ==
    ~(view.selectedArtistId # Null /\ view.selectedLabelId # Null)

\* C3: a click on a work dot or on an influenced/influencing dot leaves the
\* selected contributor and the selected label as they were.
C3_ArtworkClickFrame ==
    [][(ClickWorkDot \/ ClickInfluenceDot) =>
          /\ view'.selectedArtistId = view.selectedArtistId
          /\ view'.selectedLabelId = view.selectedLabelId]_vars

\* an artwork has been selected by a click on the output drawn for a selected
\* contributor, and that contributor is still selected
C3_Witness ==
    /\ svg.rendered
    /\ svg.by.selectedArtworkId = Null
    /\ svg.by.selectedArtistId # Null
    /\ view.selectedArtworkId # Null
    /\ view.selectedArtistId = svg.by.selectedArtistId

(***************************************************************************)
(* The scheduler under fair timers: time passes and due timers fire.       *)
(***************************************************************************)
LiveSpec == SchedSpec /\ WF_vars(Tick) /\ WF_vars(TimerFire)

(***************************************************************************)
(* Properties of the debounced scheduling.                                 *)
(***************************************************************************)
\* C4: a trigger that arrives while the timer of the previous trigger is
\* pending replaces it: the only pending timer is the one of the last
\* trigger, an execution happens only for the last trigger, once its delay
\* has elapsed, at most once, and leaves nothing queued.
C4_TrailingEdge ==
    /\ [](\A t \in timers : t.id = debouncedDraw.timer)
    /\ [][fired' # fired =>
            \E t \in timers :
                /\ t.id = debouncedDraw.timer
                /\ t.left = 0
                /\ t.id \notin fired
                /\ fired' = fired \cup {t.id}
                /\ timers' = {}]_vars

\* two triggers reached the first debounced closure, the second one before
\* anything had run; the second timer has fired, the first never did
C4_Witness ==
    /\ nextTimerId = 3
    /\ view = InitView
    /\ fired = {2}
    /\ timers = {}

NotifyStep == resizeObserver /\ ~resizeObserver' /\ mounted'

\* a zoom/pan event is handled
ZoomStep == zoomTransformRef' # zoomTransformRef

\* the step calls the current debounced closure and leaves the output alone
SchedulesDebounced ==
    /\ timers' = {[id |-> nextTimerId, fn |-> debouncedDraw.fn, left |-> Delay]}
    /\ debouncedDraw' = [debouncedDraw EXCEPT !.timer = nextTimerId]
    /\ svg' = svg

C9_HoverHighlight ==
    svg.rendered =>
        LET W == svg.by.hoveredArtworkId
        IN  IF W \in nodes
            THEN svg.highlight =
                   [isNull |-> FALSE,
                    ids |-> {Str(id) : id \in {W} \cup influencedBy[W] \cup influenced[W]}]
            ELSE svg.highlight.isNull /\ svg.dimmed = {}

\* C10: with the other inputs fixed, the full genre selection and the empty
\* genre selection give the same visible works, and with no other filter
\* active both give all works.
C10_FullEqualsEmpty ==
    /\ \A a \in people \cup groups \cup {Null}, l \in recordLabels \cup {Null} :
          filteredNodes(FLAT_GENRES, view.influenceGenres, a, l)
            = filteredNodes({}, view.influenceGenres, a, l)
    /\ view.selectedGenres \in {{}, FLAT_GENRES}
         /\ view.influenceGenres = {}
         /\ view.selectedArtistId = Null
         /\ view.selectedLabelId = Null
       => visibleSongAlbumIds(view) = nodes

\* the genre selection has been emptied, an influence genre is selected, and
\* the draw for that state has rendered fewer than all works
C10_Witness ==
    /\ view.selectedGenres = {}
    /\ view.influenceGenres # {}
    /\ svg.rendered
    /\ svg.by = view
    /\ visibleSongAlbumIds(view) # {}
    /\ visibleSongAlbumIds(view) # nodes

(***************************************************************************)
(* Selections together with the filter checkboxes: the clicks on the marks *)
(* of contributors and labels, the three filters, and the timers of the    *)
(* debounced redraw.                                                       *)
(***************************************************************************)
SelectNext ==
    \/ ClickLabel
    \/ ClickArtist
    \/ CloseLightbox
    \/ handleGenreChange
    \/ handleSelectAll
    \/ handleInfluenceGenreChange
    \/ handleRoleChange
    \/ handleRoleSelectAll
    \/ Tick
    \/ TimerFire

SelectSpec == Init /\ [][SelectNext]_vars

(***************************************************************************)
(* The filter pipeline evaluated on its own: one evaluation of the memos   *)
(* filteredNodes, artistNodes and visibleLabels for every combination of   *)
(* the state cells they depend on.                                         *)
(***************************************************************************)
FilterInputs ==
    [selectedArtistId : people \cup groups \cup {Null},
     selectedLabelId : recordLabels \cup {Null},
     selectedArtworkId : {Null},
     hoveredArtworkId : {Null},
     selectedGenres : SUBSET FLAT_GENRES,
     influenceGenres : SUBSET FLAT_GENRES,
     selectedRoles : SUBSET ARTIST_ROLES,
     svgHeight : {updateHeight(InitWidth)}]

FilterCalcs ==
    {[fn |-> "filters", in |-> c, done |-> FALSE,
      out |-> [filteredNodes |-> {}, artistNodes |-> {}, visibleLabels |-> {}]]
        : c \in FilterInputs}

\* an evaluation that treats the full influence selection as no selection
EvalFilters_fullInfluenceBypassed ==
    /\ calc.fn = "filters"
    /\ ~calc.done
    /\ LET c == IF calc.in.influenceGenres = FLAT_GENRES
                THEN [calc.in EXCEPT !.influenceGenres = {}]
                ELSE calc.in
       IN  calc' = [calc EXCEPT !.done = TRUE,
                                !.out = [filteredNodes |-> visibleSongAlbumIds(c),
                                         artistNodes |-> artistNodes(c),
                                         visibleLabels |-> visibleLabels(c)]]
    /\ UNCHANGED <<view, ui, width, zoomTransformRef, mounted, debouncedDraw,
                   timers, nextTimerId, svg, resizeObserver, fired, chat>>

\* the memos are evaluated for the state cells of the input
EvalFilters ==
    /\ calc.fn = "filters"
    /\ ~calc.done
    /\ calc' = [calc EXCEPT !.done = TRUE,
                            !.out = [filteredNodes |-> visibleSongAlbumIds(calc.in),
                                     artistNodes |-> artistNodes(calc.in),
                                     visibleLabels |-> visibleLabels(calc.in)]]
    /\ UNCHANGED <<view, ui, width, zoomTransformRef, mounted, debouncedDraw,
                   timers, nextTimerId, svg, resizeObserver, fired, chat>>

(***************************************************************************)
(* The influence band of a contributor.                                    *)
(***************************************************************************)
RECURSIVE floorLog10(_)
\* Math.floor(Math.log10(x)) for an integer x >= 1
floorLog10(x) == IF x < 10 THEN 0 ELSE 1 + floorLog10(x \div 10)

\* a band index without the step from influence 0 to influence 1
getBandIdx_fromZero(inf) == IF inf = 0 THEN 0 ELSE floorLog10(inf)

getBandIdx(inf) == IF inf = 0 THEN 0 ELSE 1 + floorLog10(inf)

BandCalcs ==
    {[fn |-> "getBandIdx", in |-> v, done |-> FALSE, out |-> 0]
        : v \in 0..MaxInfluence}

\* const bandIdx = getBandIdx(influenceScore)
EvalBandIdx ==
    /\ calc.fn = "getBandIdx"
    /\ ~calc.done
    /\ calc' = [calc EXCEPT !.done = TRUE, !.out = getBandIdx(calc.in)]
    /\ UNCHANGED <<view, ui, width, zoomTransformRef, mounted, debouncedDraw,
                   timers, nextTimerId, svg, resizeObserver, fired, chat>>

\* the sorted years of 2 to MaxWorks works
ContributedYears ==
    {ys \in UNION {[1..k -> Years] : k \in 2..MaxWorks} :
        \A i \in 1..(Len(ys) - 1) : ys[i] <= ys[i + 1]}

\* the influence time series of up to MaxEvents events
InfluenceArrays ==
    UNION {[1..k -> [year : InfluenceYears \cup {Null}, score : Scores]]
              : k \in 0..MaxEvents}

TailCalcs ==
    {[fn |-> "tail",
      in |-> [yearsContributed |-> ys, influence |-> infl,
              tailMin |-> ends[1], tailMax |-> ends[2]],
      done |-> FALSE,
      out |-> [yearsList |-> <<>>, influenceByYear |-> <<>>, tailRadii |-> <<>>,
               path |-> [appended |-> FALSE, d |-> <<>>]]]
        : ys \in ContributedYears, infl \in InfluenceArrays, ends \in TailEnds}

\* the tail of the selected contributor is computed in draw
EvalTail ==
    /\ calc.fn = "tail"
    /\ ~calc.done
    /\ calc' = [calc EXCEPT
                   !.done = TRUE,
                   !.out = tail(calc.in.yearsContributed, calc.in.influence,
                                calc.in.tailMin, calc.in.tailMax,
                                frameLayout.startAngle, frameLayout.endAngle,
                                frameLayout.maxW)]
    /\ UNCHANGED <<view, ui, width, zoomTransformRef, mounted, debouncedDraw,
                   timers, nextTimerId, svg, resizeObserver, fired, chat>>

(***************************************************************************)
(* Placement jitter of the contributor marks and of the label marks.       *)
(* Overview.jsx derives it from a 32-bit hash of the id string; the        *)
(* Overview component kept in App.jsx draws it from Math.random().         *)
(***************************************************************************)
\* ToInt32 of the number hi * 2^16 + lo, given by its two 16-bit halves
ToInt32(hi, lo) ==
    IF hi >= 2^15 THEN (hi - 2^16) * 2^16 + lo ELSE hi * 2^16 + lo

\* ((a << 5) - a) + code, then a & a: 31 * a + code wrapped to 32 bits,
\* computed on the 16-bit halves of a
hashStep(a, code) ==
    LET lo == a % 2^16
        hi == (a \div 2^16) % 2^16
        low == 31 * lo + code
    IN  ToInt32((31 * hi + low \div 2^16) % 2^16, low % 2^16)

\* a % n of JavaScript: the result has the sign of a
rem(a, n) == IF a < 0 THEN -((-a) % n) ELSE a % n

RECURSIVE decimal(_)
\* the decimal digits of a positive integer
decimal(n) == IF n < 10 THEN <<n>> ELSE decimal(n \div 10) \o <<n % 10>>

\* String(node.id || ''): the digits of the id, empty for the falsy id 0
idString(id) == IF id = 0 THEN <<>> ELSE decimal(id)

\* charCodeAt(0) of a digit character
charCodeAt(digit) == 48 + digit

RECURSIVE hash(_)
\* idString.split('').reduce((a, b) => { a = ((a << 5) - a) + code; return a & a }, 0)
hash(str) ==
    IF str = <<>> THEN 0
    ELSE hashStep(hash(SubSeq(str, 1, Len(str) - 1)), charCodeAt(str[Len(str)]))

labelBandHeightByYear ==
    <<[year |-> 1985, height |-> 5], [year |-> 1990, height |-> 10],
      [year |-> 2010, height |-> 50], [year |-> 2015, height |-> 80],
      [year |-> 2020, height |-> 130], [year |-> 2021, height |-> 150],
      [year |-> 2023, height |-> 150], [year |-> 2028, height |-> 130],
      [year |-> 2030, height |-> 90], [year |-> 2033, height |-> 40],
      [year |-> 2040, height |-> 10]>>

\* the height of the label band at the median year of a label
bandHeight(medianYear) ==
    LET n == Len(labelBandHeightByYear)
        hits == {i \in 2..n : medianYear <= labelBandHeightByYear[i].year}
        i == CHOOSE k \in hits : \A j \in hits : k <= j
        prev == labelBandHeightByYear[i - 1]
        next == labelBandHeightByYear[i]
        t == Num(medianYear - prev.year, next.year - prev.year)
    IN  IF medianYear > labelBandHeightByYear[n].year
        THEN Num(labelBandHeightByYear[n].height, 1)
        ELSE Plus(Num(prev.height, 1), Times(t, Num(next.height - prev.height, 1)))

\* Overview.jsx: the jitter of a contributor mark
artistJitter(id) ==
    LET h == hash(idString(id))
    IN  [angleJitter |-> Times(Minus(Num(rem(h, 100), 100), Num(1, 2)), Num(8, 100)),
         rJitter |-> Times(Minus(Num(rem(h, 1000), 1000), Num(1, 2)), Num(40, 1))]

\* Overview.jsx: the jitter of a label mark
labelJitter(id, medianYear) ==
    LET h == hash(idString(id))
    IN  [angleJitter |-> Times(Minus(Num(rem(h, 100), 100), Num(1, 2)), Num(5, 100)),
         radiusJitter |-> Times(Minus(Num(rem(h, 1000), 1000), Num(1, 2)),
                                bandHeight(medianYear))]

\* App.jsx: the jitter of a contributor mark; random is a Math.random() value
artistJitterRandom(id, random) ==
    LET h == hash(idString(id))
    IN  [jitterAngle |-> rem(h, 360),
         jitterDistance |-> Times(Num(rem(h, 100), 100), Num(60, 1)),
         angleJitter |-> Times(Minus(random, Num(1, 2)), Num(15, 100))]

\* App.jsx: the jitter of a label mark; two Math.random() values
labelJitterRandom(medianYear, random1, random2) ==
    [angleJitter |-> Times(Minus(random1, Num(1, 2)), Num(5, 100)),
     radiusJitter |-> Times(Minus(random2, Num(1, 2)), bandHeight(medianYear))]

\* the values Math.random() returns, in [0, 1)
Randoms == {Num(0, 1), Num(3, 4)}

\* the contributors that are placed: those of the dataset, and contributors
\* with the seven-digit ids of a larger dataset
PlacedArtists == people \cup groups \cup {1111111, 1911111}

\* a mark to place: the file of the component, the kind of mark, the entity
PlaceCalcs ==
    {[fn |-> "place",
      in |-> [file |-> f, mark |-> "artist", id |-> a, medianYear |-> 2000],
      done |-> FALSE, out |-> <<>>]
        : f \in {"Overview.jsx", "App.jsx"}, a \in PlacedArtists}
    \cup
    {[fn |-> "place",
      in |-> [file |-> f, mark |-> "label", id |-> l, medianYear |-> y],
      done |-> FALSE, out |-> <<>>]
        : f \in {"Overview.jsx", "App.jsx"}, l \in recordLabels, y \in Years}

\* one recomputation of Overview.jsx places the contributor mark
PlaceArtist ==
    /\ calc.fn = "place" /\ calc.in.file = "Overview.jsx" /\ calc.in.mark = "artist"
    /\ ~calc.done
    /\ calc' = [calc EXCEPT !.out = Append(@, artistJitter(calc.in.id)),
                            !.done = Len(calc.out) + 1 = MaxRecomputations]
    /\ UNCHANGED <<view, ui, width, zoomTransformRef, mounted, debouncedDraw,
                   timers, nextTimerId, svg, resizeObserver, fired, chat>>

\* one recomputation of Overview.jsx places the label mark
PlaceLabel ==
    /\ calc.fn = "place" /\ calc.in.file = "Overview.jsx" /\ calc.in.mark = "label"
    /\ ~calc.done
    /\ calc' = [calc EXCEPT !.out = Append(@, labelJitter(calc.in.id, calc.in.medianYear)),
                            !.done = Len(calc.out) + 1 = MaxRecomputations]
    /\ UNCHANGED <<view, ui, width, zoomTransformRef, mounted, debouncedDraw,
                   timers, nextTimerId, svg, resizeObserver, fired, chat>>

\* one recomputation of the component in App.jsx places the contributor mark
PlaceArtistRandom ==
    \E random \in Randoms :
        /\ calc.fn = "place" /\ calc.in.file = "App.jsx" /\ calc.in.mark = "artist"
        /\ ~calc.done
        /\ calc' = [calc EXCEPT !.out = Append(@, artistJitterRandom(calc.in.id, random)),
                                !.done = Len(calc.out) + 1 = MaxRecomputations]
        /\ UNCHANGED <<view, ui, width, zoomTransformRef, mounted, debouncedDraw,
                       timers, nextTimerId, svg, resizeObserver, fired, chat>>

\* one recomputation of the component in App.jsx places the label mark
PlaceLabelRandom ==
    \E random1 \in Randoms, random2 \in Randoms :
        /\ calc.fn = "place" /\ calc.in.file = "App.jsx" /\ calc.in.mark = "label"
        /\ ~calc.done
        /\ calc' = [calc EXCEPT
                       !.out = Append(@, labelJitterRandom(calc.in.medianYear,
                                                           random1, random2)),
                       !.done = Len(calc.out) + 1 = MaxRecomputations]
        /\ UNCHANGED <<view, ui, width, zoomTransformRef, mounted, debouncedDraw,
                       timers, nextTimerId, svg, resizeObserver, fired, chat>>

\* the median years of the labels whose band height is evaluated
MedianYears == 1975..2045

\* the band height of a label mark, for each median year
BandHeightCalcs ==
    {[fn |-> "bandHeight", in |-> y, done |-> FALSE, out |-> NaN] : y \in MedianYears}

\* the placement of a label evaluates the band height at its median year
EvalBandHeight ==
    /\ calc.fn = "bandHeight" /\ ~calc.done
    /\ calc' = [calc EXCEPT !.out = bandHeight(calc.in), !.done = TRUE]
    /\ UNCHANGED <<view, ui, width, zoomTransformRef, mounted, debouncedDraw,
                   timers, nextTimerId, svg, resizeObserver, fired, chat>>

(***************************************************************************)
(* The pure computations, each applied once to an input drawn from its     *)
(* bounded input set.                                                      *)
(***************************************************************************)
CalcInit ==
    /\ OverviewInit
    /\ chat = ChatInit
    /\ \/ calc \in FilterCalcs
       \/ calc \in BandCalcs
       \/ calc \in TailCalcs
       \/ calc \in PlaceCalcs
       \/ calc \in BandHeightCalcs

CalcNext ==
    \/ EvalFilters
    \/ EvalBandIdx
    \/ EvalTail
    \/ PlaceArtist
    \/ PlaceLabel
    \/ PlaceArtistRandom
    \/ PlaceLabelRandom
    \/ EvalBandHeight

CalcSpec == CalcInit /\ [][CalcNext]_vars

(***************************************************************************)
(* The Chatbot component (src/src/Chatbot.jsx): the chat window, its input *)
(* and the exchange with the chat API.  A text is a sequence of            *)
(* characters; an error message and a reply of the component are sequences *)
(* of the fragments they are built from.                                   *)
(***************************************************************************)
\* the texts typed into the textarea
Texts == {<<" ">>, <<"h", "i">>, <<" ", "h", "i", " ">>, <<"y", "o">>}

RECURSIVE trim(_)
\* String.prototype.trim
trim(s) ==
    IF s = <<>> THEN s
    ELSE IF Head(s) = " " THEN trim(Tail(s))
    ELSE IF s[Len(s)] = " " THEN trim(SubSeq(s, 1, Len(s) - 1))
    ELSE s

\* the ways the fetch of the chat API and the reading of its body can end
Outcomes ==
    {[fetch |-> "rejected", ok |-> FALSE, status |-> "0", body |-> "none", answer |-> ""],
     [fetch |-> "resolved", ok |-> FALSE, status |-> "500", body |-> "text", answer |-> ""],
     [fetch |-> "resolved", ok |-> FALSE, status |-> "404", body |-> "text", answer |-> ""],
     [fetch |-> "resolved", ok |-> TRUE, status |-> "200", body |-> "invalid", answer |-> ""],
     [fetch |-> "resolved", ok |-> TRUE, status |-> "200", body |-> "null", answer |-> ""],
     [fetch |-> "resolved", ok |-> TRUE, status |-> "200", body |-> "object", answer |-> ""],
     [fetch |-> "resolved", ok |-> TRUE, status |-> "200", body |-> "object", answer |-> "An answer"]}

\* error.message of the error thrown in the try block, <<>> if none is thrown
thrown(outcome) ==
    IF outcome.fetch = "rejected" THEN <<"Failed to fetch">>
    ELSE IF ~outcome.ok
    THEN <<"Server error: ", outcome.status, " - ", "error page">>
    ELSE IF outcome.body = "invalid" THEN <<"Unexpected token in ", "JSON">>
    ELSE IF outcome.body = "null"
    THEN <<"Cannot read properties of null (reading 'answer')">>
    ELSE <<>>

\* the text of the catch block for an error
errorMessage(error) ==
    IF includes(error, <<"Server error: ", "500">>)
    THEN <<"The server is experiencing issues. Please try again later or contact support.">>
    ELSE IF includes(error, <<"Failed to fetch">>)
    THEN <<"Unable to connect to the server. Please check your internet connection.">>
    ELSE IF includes(error, <<"JSON">>)
    THEN <<"The server returned an invalid response. Please try again.">>
    ELSE <<"Sorry, there was an error processing your request. Please try again.">>

\* a catch block that logs the error and shows nothing
catchBlock_silent(messages, error) == messages

\* catch (error): the error text is appended as a message of the bot
catchBlock(messages, error) ==
    Append(messages, [text |-> errorMessage(error), sender |-> "bot"])

\* handleSendMessage up to the await of fetch
handleSendMessage(c) ==
    IF trim(c.inputMessage) = <<>> THEN c
    ELSE [c EXCEPT !.inputMessage = <<>>,
                   !.messages = Append(@, [text |-> trim(c.inputMessage),
                                           sender |-> "user"]),
                   !.isLoading = TRUE,
                   !.fetch = Append(@, trim(c.inputMessage))]

\* handleSendMessage after the await: rest of try, catch, finally
settled(c, outcome) ==
    [c EXCEPT !.messages =
                  IF thrown(outcome) = <<>>
                  THEN Append(@, [text |-> IF outcome.answer # ""
                                           THEN <<outcome.answer>>
                                           ELSE <<"Sorry, I couldn't process your request.">>,
                                  sender |-> "bot"])
                  ELSE catchBlock(@, thrown(outcome)),
              !.isLoading = FALSE,
              !.fetch = Tail(@)]

\* the chat button
ToggleChat ==
    /\ chat' = [chat EXCEPT !.isOpen = ~chat.isOpen]
    /\ UNCHANGED <<view, ui, width, zoomTransformRef, mounted, debouncedDraw,
                   timers, nextTimerId, svg, resizeObserver, fired, calc>>

\* the close button of the chat window
CloseChat ==
    /\ chat.isOpen
    /\ chat' = [chat EXCEPT !.isOpen = FALSE]
    /\ UNCHANGED <<view, ui, width, zoomTransformRef, mounted, debouncedDraw,
                   timers, nextTimerId, svg, resizeObserver, fired, calc>>

\* a textarea that stays enabled while a request is in flight
textareaDisabled_never(c) == FALSE

\* disabled={isLoading} of the textarea
textareaDisabled(c) == c.isLoading

\* onChange of the textarea, which is disabled while loading
ChangeInput ==
    \E text \in Texts \cup {<<>>} :
        /\ chat.isOpen /\ ~textareaDisabled(chat)
        /\ text # chat.inputMessage
        /\ chat' = [chat EXCEPT !.inputMessage = text]
        /\ UNCHANGED <<view, ui, width, zoomTransformRef, mounted, debouncedDraw,
                       timers, nextTimerId, svg, resizeObserver, fired, calc>>

\* the send button, disabled while loading and for a blank input
ClickSend ==
    /\ chat.isOpen /\ ~chat.isLoading
    /\ trim(chat.inputMessage) # <<>>
    /\ Len(chat.messages) < MaxMessages
    /\ chat' = handleSendMessage(chat)
    /\ UNCHANGED <<view, ui, width, zoomTransformRef, mounted, debouncedDraw,
                   timers, nextTimerId, svg, resizeObserver, fired, calc>>

\* handleKeyPress: Enter without Shift in the textarea
handleKeyPress ==
    /\ chat.isOpen /\ ~textareaDisabled(chat)
    /\ Len(chat.messages) < MaxMessages
    /\ chat' = handleSendMessage(chat)
    /\ UNCHANGED <<view, ui, width, zoomTransformRef, mounted, debouncedDraw,
                   timers, nextTimerId, svg, resizeObserver, fired, calc>>

\* the fetch settles and handleSendMessage runs to its end
FetchSettles ==
    \E outcome \in Outcomes :
        /\ chat.fetch # <<>>
        /\ chat' = settled(chat, outcome)
        /\ UNCHANGED <<view, ui, width, zoomTransformRef, mounted, debouncedDraw,
                       timers, nextTimerId, svg, resizeObserver, fired, calc>>

ChatNext ==
    \/ ToggleChat
    \/ CloseChat
    \/ ChangeInput
    \/ ClickSend
    \/ handleKeyPress
    \/ FetchSettles

ChatSpec == Init /\ [][ChatNext]_vars

(***************************************************************************)
(* Properties of the filter pipeline.                                      *)
(***************************************************************************)
\* C11: for every combination of genre selection, influence-genre selection,
\* selected label and selected contributor, the visible works are the works
\* that pass the genre predicate (every work when the genre selection is
\* empty), that cite a source of a selected influence genre (every work when
\* the influence selection is empty), and that belong to the selected label,
\* or else to the selected contributor; the label takes precedence.
C11_VisibleWorks ==
    calc.fn = "filters" /\ calc.done =>
        LET c == calc.in
            passGenre ==
                IF c.selectedGenres = {} THEN nodes
                ELSE {n \in nodes : genre[n] \in c.selectedGenres}
            passInfluence ==
                IF c.influenceGenres = {} THEN nodes
                ELSE {n \in nodes :
                         \E source \in influencedBy[n] :
                             genre[source] \in c.influenceGenres}
            passSelection ==
                IF c.selectedLabelId # Null
                THEN recordedArtwork[c.selectedLabelId]
                       \cup distributedArtwork[c.selectedLabelId]
                ELSE IF c.selectedArtistId # Null
                THEN contributedTo[c.selectedArtistId]
                ELSE nodes
        IN  calc.out.filteredNodes
              = (passGenre \cap passInfluence) \cap passSelection

\* the pipeline has run with a label and a contributor both selected, and the
\* label's works, not the contributor's, are visible
C11_Witness ==
    /\ calc.fn = "filters" /\ calc.done
    /\ calc.in.selectedLabelId # Null
    /\ calc.in.selectedArtistId # Null
    /\ calc.out.filteredNodes # {}
    /\ calc.out.filteredNodes \cap contributedTo[calc.in.selectedArtistId] = {}

\* C12: whenever the influence-genre selection is non-empty, every visible
\* work cites at least one source whose genre is in that selection, and a
\* work that cites no source is not visible.
C12_InfluenceFilter ==
    calc.fn = "filters" /\ calc.done /\ calc.in.influenceGenres # {} =>
        /\ \A n \in calc.out.filteredNodes :
              \E source \in influencedBy[n] :
                  genre[source] \in calc.in.influenceGenres
        /\ \A n \in nodes : influencedBy[n] = {} => n \notin calc.out.filteredNodes

\* the pipeline has run with a non-empty influence selection and no other
\* restriction: some works are visible and a work without sources is not
C12_Witness ==
    /\ calc.fn = "filters" /\ calc.done
    /\ calc.in.influenceGenres # {}
    /\ calc.in.selectedGenres = {}
    /\ calc.in.selectedLabelId = Null
    /\ calc.in.selectedArtistId = Null
    /\ calc.out.filteredNodes # {}
    /\ \E n \in nodes : influencedBy[n] = {} /\ n \notin calc.out.filteredNodes

\* C13 as stated: with all other inputs fixed, the visible works for the
\* full influence-genre selection are the visible works for the empty
\* influence-genre selection.
C13_FullInfluenceEqualsEmpty ==
    calc.fn = "filters" /\ calc.done /\ calc.in.influenceGenres = FLAT_GENRES =>
        calc.out.filteredNodes
          = visibleSongAlbumIds([calc.in EXCEPT !.influenceGenres = {}])

\* C13 as amended: the full influence-genre selection is a filter like any
\* other non-empty selection: with all other inputs fixed, its visible works
\* are the visible works for the empty influence-genre selection that cite
\* at least one source, so the two sets differ exactly by the visible works
\* without sources.
C13_FullInfluenceKeepsCitingWorks ==
    calc.fn = "filters" /\ calc.done /\ calc.in.influenceGenres = FLAT_GENRES =>
        calc.out.filteredNodes
          = {n \in visibleSongAlbumIds([calc.in EXCEPT !.influenceGenres = {}]) :
                influencedBy[n] # {}}

\* the pipeline has run with the full influence selection and has hidden a
\* work that the empty influence selection shows
C13_Witness ==
    /\ calc.fn = "filters" /\ calc.done
    /\ calc.in.influenceGenres = FLAT_GENRES
    /\ calc.out.filteredNodes # {}
    /\ \E n \in visibleSongAlbumIds([calc.in EXCEPT !.influenceGenres = {}]) :
           n \notin calc.out.filteredNodes

\* C14: a contributor is visible exactly when it contributed to at least one
\* visible work and holds at least one selected role, so no contributor is
\* visible under the empty role selection; a label is visible exactly when
\* it recorded or distributed at least one visible work.
C14_VisibleContributorsAndLabels ==
    calc.fn = "filters" /\ calc.done =>
        /\ \A a \in people \cup groups :
              a \in calc.out.artistNodes <=>
                  /\ \E w \in contributedTo[a] : w \in calc.out.filteredNodes
                  /\ \E r \in roles[a] : r \in calc.in.selectedRoles
        /\ calc.in.selectedRoles = {} => calc.out.artistNodes = {}
        /\ \A l \in recordLabels :
              l \in calc.out.visibleLabels <=>
                  \E w \in recordedArtwork[l] \cup distributedArtwork[l] :
                      w \in calc.out.filteredNodes

\* the pipeline has run with one role selected: a contributor to a visible
\* work is visible, another one is hidden for lack of a selected role, and a
\* label is visible while another has no visible work
C14_Witness ==
    /\ calc.fn = "filters" /\ calc.done
    /\ calc.in.selectedRoles # {}
    /\ calc.out.artistNodes # {}
    /\ \E a \in (people \cup groups) \ calc.out.artistNodes :
           contributedTo[a] \cap calc.out.filteredNodes # {}
    /\ calc.out.visibleLabels # {}
    /\ calc.out.visibleLabels # recordLabels

(***************************************************************************)
(* Properties of the contributor layout.                                   *)
(***************************************************************************)
\* C15: the band of influence 0 is 0; the band of a positive integer
\* influence v is its number of decimal digits, 1 + floor(log10(v)), so the
\* bands of 1, 10, 99 and 100 are 1, 2, 2 and 3; the band is never negative
\* and does not decrease when the influence grows.
C15_BandIsDigitCount ==
    calc.fn = "getBandIdx" /\ calc.done =>
        LET v == calc.in
            band == calc.out
            pow10[k \in 0..(band + 1)] == IF k = 0 THEN 1 ELSE 10 * pow10[k - 1]
        IN  /\ band >= 0
            /\ v = 0 => band = 0
            /\ v >= 1 => band >= 1 /\ pow10[band - 1] <= v /\ v < pow10[band]
            /\ v = 1 => band = 1
            /\ v = 10 => band = 2
            /\ v = 99 => band = 2
            /\ v = 100 => band = 3
            /\ \A u \in 0..v : getBandIdx(u) <= band

\* the band of influence 100 has been computed
C15_Witness ==
    /\ calc.fn = "getBandIdx" /\ calc.done
    /\ calc.in = 100
    /\ calc.out = 3

C17_CumulativeZeroFiveFive ==
    /\ calc.fn = "tail" /\ calc.done
    /\ calc.in.yearsContributed = <<2000, 2005, 2010>>
    /\ calc.in.influence = <<[year |-> 2005, score |-> 5]>>
    => /\ calc.out.yearsList = <<2000, 2005, 2010>>
       /\ calc.out.influenceByYear = <<Num(0, 1), Num(5, 1), Num(5, 1)>>

\* C17 as amended: for works in 2000, 2005 and 2010 and a single influence
\* event of magnitude 5 in 2005, the cumulative influence over the year
\* list [2000, 2005, 2010] is [5, 5, 5]: the year before the first year with
\* an event takes the value of that year, and the year after the last one
\* keeps it.
C17_CumulativeFiveFiveFive ==
    /\ calc.fn = "tail" /\ calc.done
    /\ calc.in.yearsContributed = <<2000, 2005, 2010>>
    /\ calc.in.influence = <<[year |-> 2005, score |-> 5]>>
    => /\ calc.out.yearsList = <<2000, 2005, 2010>>
       /\ calc.out.influenceByYear = <<Num(5, 1), Num(5, 1), Num(5, 1)>>

\* the tail of the scenario has been computed
C17_Witness ==
    /\ calc.fn = "tail" /\ calc.done
    /\ calc.in.yearsContributed = <<2000, 2005, 2010>>
    /\ calc.in.influence = <<[year |-> 2005, score |-> 5]>>
    /\ Len(calc.out.influenceByYear) = 3

\* C18: recomputations run on identical inputs place every contributor mark
\* and every label mark with identical jitter: the jitter depends on the
\* entity only, never on an unseeded random source.
C18_SameInputsSamePlacement ==
    calc.fn = "place" =>
        \A i \in 1..Len(calc.out) : \A j \in 1..Len(calc.out) :
            calc.out[i] = calc.out[j]

(***************************************************************************)
(* Properties of the Chatbot component.                                    *)
(***************************************************************************)
\* C19: a submitted non-blank question appends the user message and sets the
\* loading flag; the end of the exchange appends exactly one message of the
\* bot, the answer on success and an error text on every failure, and
\* clears the loading flag; the flag is set exactly while the last message
\* is a question waiting for its reply; messages change in no other way and
\* no state of the visualization changes.
C19_OneReplyPerQuestion ==
    /\ [](/\ chat.isLoading <=> chat.fetch # <<>>
          /\ chat.isLoading <=>
                /\ chat.messages # <<>>
                /\ chat.messages[Len(chat.messages)].sender = "user"
          /\ \A i \in 1..Len(chat.messages) :
                chat.messages[i].sender = IF i % 2 = 1 THEN "user" ELSE "bot")
    /\ [][chat'.messages # chat.messages =>
            \/ /\ ~chat.isLoading /\ chat'.isLoading
               /\ trim(chat.inputMessage) # <<>>
               /\ chat'.messages = Append(chat.messages,
                                          [text |-> trim(chat.inputMessage),
                                           sender |-> "user"])
            \/ /\ chat.isLoading /\ ~chat'.isLoading
               /\ \E outcome \in Outcomes :
                     LET success == /\ outcome.fetch = "resolved" /\ outcome.ok
                                    /\ outcome.body = "object" /\ outcome.answer # ""
                         reply == chat'.messages[Len(chat'.messages)]
                     IN  /\ chat'.messages = Append(chat.messages, reply)
                         /\ reply.sender = "bot"
                         /\ reply.text # <<>>
                         /\ success => reply.text = <<outcome.answer>>
                         /\ ~success => reply.text # <<"An answer">>]_vars
    /\ [][chat' # chat =>
            UNCHANGED <<view, ui, width, zoomTransformRef, svg>>]_vars

\* two questions have been asked: the first got an error text, the second
\* its answer
C19_Witness ==
    /\ Len(chat.messages) = 4
    /\ ~chat.isLoading
    /\ chat.messages[2].text # <<"An answer">>
    /\ chat.messages[4].text = <<"An answer">>

(***************************************************************************)
(* Properties of the pie glyphs.                                           *)
(***************************************************************************)
\* C20 as stated: a draw renders pie glyphs if and only if the
\* influence-genre selection contains every genre of the vocabulary.
C20_PiesIffFullSelection ==
    svg.rendered =>
        (svg.pies # {} <=> FLAT_GENRES \subseteq svg.by.influenceGenres)

\* C20 as amended: a draw renders the pie glyph of a year if and only if the
\* influence-genre selection contains every genre of the vocabulary and the
\* year has at least one visible work; for a proper subset of the vocabulary
\* (the empty set included) it renders no pie glyph, and for the full
\* selection it renders none when no work is visible.
C20_PiesForYearsWithVisibleWorks ==
    svg.rendered =>
        /\ \A year \in {release_date[n] : n \in nodes} :
              year \in svg.pies <=>
                  /\ FLAT_GENRES \subseteq svg.by.influenceGenres
                  /\ \E n \in visibleSongAlbumIds(svg.by) : release_date[n] = year
        /\ svg.pies \subseteq {release_date[n] : n \in nodes}
        /\ svg.by.influenceGenres # FLAT_GENRES => svg.pies = {}

\* a draw for the full influence selection has rendered the glyphs of the
\* years with a visible work and no glyph for a year whose works are hidden
C20_Witness ==
    /\ svg.rendered
    /\ svg.by.influenceGenres = FLAT_GENRES
    /\ svg.pies # {}
    /\ svg.pies # {release_date[n] : n \in nodes}

(***************************************************************************)
(* Label placement: the band height as a function of the median year.      *)
(***************************************************************************)
\* C21: the label jitter magnitude follows the keyframe table: between two
\* consecutive control points it is their linear interpolation, before the
\* first control point it is the first magnitude, after the last control
\* point it is the last magnitude.
C21_KeyframeClamped ==
    (calc.fn = "bandHeight" /\ calc.done) =>
        LET n == Len(labelBandHeightByYear)
            first == labelBandHeightByYear[1]
            last == labelBandHeightByYear[n]
            y == calc.in
        IN  /\ y < first.year => calc.out = Num(first.height, 1)
            /\ y > last.year => calc.out = Num(last.height, 1)
            /\ \A i \in 1..(n - 1) :
                   LET p == labelBandHeightByYear[i]
                       q == labelBandHeightByYear[i + 1]
                   IN  (p.year <= y /\ y <= q.year) =>
                           calc.out = Over(Num(p.height * (q.year - y)
                                               + q.height * (y - p.year), 1),
                                           Num(q.year - p.year, 1))

(***************************************************************************)
(* The fill colour of the contributor marks while a work is selected.      *)
(***************************************************************************)
\* the roles of a work that list a contributor
rolesListing(artwork, node) ==
    {i \in 1..Len(roleKeys) : node \in roleField(roleKeys[i], artwork)}

\* C22: when a work is selected, a contributor mark gets a role colour if
\* and only if exactly one of the four roles of the selected work lists that
\* contributor; with zero roles or more than one it keeps the neutral colour.
C22_RoleColourIffOneRole ==
    (svg.rendered /\ svg.by.selectedArtworkId # Null) =>
        \A node \in DOMAIN svg.fill :
            LET listed == rolesListing(svg.by.selectedArtworkId, node)
            IN  IF Cardinality(listed) = 1
                THEN \E i \in listed : svg.fill[node] = ROLE_COLOR_MAP[roleKeys[i]]
                ELSE svg.fill[node] = neutralColor

(***************************************************************************)
(* The tails of a frame.                                                   *)
(***************************************************************************)
\* C23: in any recomputation an influence ribbon is drawn only for the
\* currently selected contributor: none while no contributor is selected,
\* and none for a contributor other than the selected one.
C23_RibbonOnlyForSelected ==
    svg.rendered =>
        /\ svg.by.selectedArtistId = Null => DOMAIN svg.tails = {}
        /\ \A node \in DOMAIN svg.tails : node = svg.by.selectedArtistId

\* C23 (as the code has it): a tail is drawn only while some contributor is
\* selected; the yellow ribbon is the one of the selected contributor, and
\* every other drawn contributor with works in at least two years gets a
\* grey tail.
C23_YellowOnlyForSelected ==
    svg.rendered =>
        /\ svg.by.selectedArtistId = Null => DOMAIN svg.tails = {}
        /\ \A node \in DOMAIN svg.tails :
               svg.tails[node] = "#ff0" <=> node = svg.by.selectedArtistId
        /\ svg.by.selectedArtistId # Null =>
               \A node \in DOMAIN svg.fill :
                   Cardinality({release_date[w] : w \in contributedTo[node]}) > 1
                       => /\ node \in DOMAIN svg.tails
                          /\ node # svg.by.selectedArtistId => svg.tails[node] = "#888"

C23_Witness ==
    /\ svg.rendered
    /\ svg.by.selectedArtistId = 3
    /\ 3 \in DOMAIN svg.tails /\ svg.tails[3] = "#ff0"
    /\ 4 \in DOMAIN svg.tails /\ svg.tails[4] = "#888"

(***************************************************************************)
(* Degenerate tails.                                                       *)
(***************************************************************************)
\* C24: a ribbon whose year sequence has fewer than 2 distinct years is never
\* drawn, and no ribbon path that is drawn contains a coordinate that is not
\* a finite number; the computation of the tail completes either way.
C24_DegenerateTailSkipped ==
    (calc.fn = "tail" /\ calc.done) =>
        LET years == calc.out.yearsList
            path == calc.out.path
        IN  /\ Cardinality({years[i] : i \in 1..Len(years)}) < 2 => ~path.appended
            /\ ~path.appended => path.d = <<>>
            /\ \A k \in 1..Len(path.d) :
                   \A j \in 1..Len(path.d[k].points) :
                       /\ ~isNaN(path.d[k].points[j].a)
                       /\ ~isNaN(path.d[k].points[j].r)

\* two works of one year and no dated event: the radii are NaN and the path
\* is skipped
C24_Witness ==
    /\ calc.fn = "tail" /\ calc.done
    /\ Len(calc.in.yearsContributed) > 1
    /\ Len(calc.out.yearsList) = 1
    /\ isNaN(calc.out.tailRadii[1])
    /\ ~calc.out.path.appended

(***************************************************************************)
(* The lightbox with the external page.                                    *)
(***************************************************************************)
\* C25: the external side-panel embed is opened only by an interaction that
\* selects a contributor whose name matches the fixed string; an interaction
\* that deselects a contributor, selects a non-matching contributor, or
\* selects a label or a work never opens it.
C25_OpenedOnlyBySelecting ==
    [][(~ui.isLightboxOpen /\ ui'.isLightboxOpen) =>
          /\ view'.selectedArtistId # Null
          /\ includes(toLowerCase(name[view'.selectedArtistId]),
                      <<"s", "a", "i", "l", "o", "r">>)
          /\ view'.selectedLabelId = view.selectedLabelId
          /\ view'.selectedArtworkId = view.selectedArtworkId]_vars

\* C25 (as the code has it): the embed is opened only by a click on the mark
\* of a contributor whose name matches the fixed string, whether that click
\* selects or deselects the contributor, or by picking such a contributor
\* from the search results; no other interaction opens it.
C25_OpenedOnlyByMatchingContributor ==
    [][(~ui.isLightboxOpen /\ ui'.isLightboxOpen) =>
          \E a \in people \cup groups :
              /\ includes(toLowerCase(name[a]), <<"s", "a", "i", "l", "o", "r">>)
              /\ view'.selectedArtistId \in {a, Null}
              /\ view'.selectedArtistId = Null => svg.by.selectedArtistId = a
              /\ view'.selectedLabelId = view.selectedLabelId
              /\ view'.selectedArtworkId = view.selectedArtworkId]_vars

\* the lightbox opened by the click that deselected the contributor
C25_Witness ==
    /\ ui.isLightboxOpen
    /\ view.selectedArtistId = Null

(***************************************************************************)
(* Clicks between a state update and the debounced redraw.                 *)
(***************************************************************************)
\* C26: a click on a contributor, label or work mark always toggles against
\* the current selection state: it deselects the clicked entity when that one
\* is currently selected and selects it otherwise, also when the click arrives
\* after the state was updated and before the pending redraw has rebuilt the
\* click handlers.
C26_ClickTogglesCurrentSelection ==
    (Interactive /\ svg.rendered) =>
        /\ \A node \in artistNodes(svg.by) :
               artistClick(svg.by, view, node).selectedArtistId
                   = IF view.selectedArtistId = node THEN Null ELSE node
        /\ \A label \in visibleLabels(svg.by) :
               labelClick(svg.by, view, label).selectedLabelId
                   = IF view.selectedLabelId = label THEN Null ELSE label
        /\ \A dot \in visibleSongAlbumIds(svg.by) \cup influenceArtworks(svg.by) :
               artworkClick(svg.by, view, dot).selectedArtworkId
                   = IF view.selectedArtworkId = dot THEN Null ELSE dot

(***************************************************************************)
(* The range of the jitter of a contributor mark.                          *)
(***************************************************************************)
\* C27: for every entity id string, the id hash being computed in 32-bit
\* signed arithmetic, the jitter stays within half of its amplitude: the
\* angle offset of a contributor lies in [-0.04, 0.04] and its radius offset
\* in [-20, 20], so its final radius is within 20 units of its band span.
C27_JitterWithinHalfAmplitude ==
    (calc.fn = "place" /\ calc.in.file = "Overview.jsx" /\ calc.in.mark = "artist") =>
        \A k \in 1..Len(calc.out) :
            /\ LessEq(Num(-4, 100), calc.out[k].angleJitter)
            /\ LessEq(calc.out[k].angleJitter, Num(4, 100))
            /\ LessEq(Num(-20, 1), calc.out[k].rJitter)
            /\ LessEq(calc.out[k].rJitter, Num(20, 1))

(***************************************************************************)
(* The shape of the chat: requests in flight and the order of messages.    *)
(***************************************************************************)
\* C28: in every reachable state of the chat at most one request is in
\* flight, and one is in flight exactly while loading; the messages alternate
\* user, assistant, user, ... starting with a user message, so there are as
\* many assistant messages as user messages when not loading and one less
\* while loading; submitting a blank input changes nothing and sends nothing.
C28_OneRequestAlternatingMessages ==
    LET users == {i \in 1..Len(chat.messages) : chat.messages[i].sender = "user"}
        bots == {i \in 1..Len(chat.messages) : chat.messages[i].sender = "bot"}
    IN  /\ Len(chat.fetch) <= 1
        /\ chat.isLoading <=> chat.fetch # <<>>
        /\ \A i \in 1..Len(chat.messages) :
               chat.messages[i].sender = IF i % 2 = 1 THEN "user" ELSE "bot"
        /\ ~chat.isLoading => Cardinality(bots) = Cardinality(users)
        /\ chat.isLoading => Cardinality(bots) = Cardinality(users) - 1
        /\ trim(chat.inputMessage) = <<>> => handleSendMessage(chat) = chat

\* the second question is in flight, a blank input is in the textarea
C28_Witness ==
    /\ chat.isLoading
    /\ Len(chat.fetch) = 1
    /\ Len(chat.messages) = 3
    /\ chat.messages[2].sender = "bot"

(***************************************************************************)
(* Selections and the filters that hide the selected entity.               *)
(***************************************************************************)
\* C29: in every state reachable by selections and genre, influence and role
\* filter toggles, a selected contributor is a member of the visible
\* contributors and a selected label is a member of the visible labels.
C29_SelectionIsVisible ==
    /\ view.selectedArtistId # Null => view.selectedArtistId \in artistNodes(view)
    /\ view.selectedLabelId # Null => view.selectedLabelId \in visibleLabels(view)

(***************************************************************************)
(* The total of the cumulative influence.                                  *)
(***************************************************************************)
\* C30: redistributing the influence of unknown year preserves the total:
\* for a ribbon with at least one event, the cumulative influence at the last
\* year of the year sequence equals the sum of the magnitudes of all the
\* events of the contributor, of known and of unknown year alike.
C30_TotalPreserved ==
    (calc.fn = "tail" /\ calc.done /\ Len(calc.in.influence) >= 1) =>
        LET events == calc.in.influence
            total[k \in 0..Len(events)] ==
                IF k = 0 THEN 0 ELSE total[k - 1] + events[k].score
            n == Len(calc.out.yearsList)
        IN  calc.out.influenceByYear[n] = <<total[Len(events)], 1>>

\* an event of unknown year and an event of a known year, both of magnitude 5,
\* for works of two different years
C30_Witness ==
    /\ calc.fn = "tail" /\ calc.done
    /\ \E k \in 1..Len(calc.in.influence) :
           calc.in.influence[k].year = Null /\ calc.in.influence[k].score > 0
    /\ \E k \in 1..Len(calc.in.influence) :
           calc.in.influence[k].year # Null /\ calc.in.influence[k].score > 0
    /\ Len(calc.out.yearsList) > 2
    /\ calc.out.influenceByYear[Len(calc.out.yearsList)] = <<10, 1>>

====
